---------------------------- MODULE Spec2Model ----------------------------
(***************************************************************************)
(* Hashi (Bridges) puzzle session of src/components/HashiGame.tsx.         *)
(*                                                                         *)
(* The component keeps its state in React hooks.  `st` is that state as    *)
(* of a committed render: what the closures of the event handlers read     *)
(* (board, bridges, selectedPoint, isDragging, isLoading).  The updates    *)
(* of a discrete event (mousedown, mouseup, click) are rendered before     *)
(* the next event.  The updates of a mousemove handler or of a timer       *)
(* callback are rendered later, so that further events can be handled      *)
(* against the previous render before theirs lands: such a batch is one    *)
(* step of the model.  Within a batch v is the render the closures read    *)
(* and s the state the queued updates have produced so far; functional     *)
(* updates (setX(prev => ...)) apply to s whatever the handler saw in v.   *)
(*                                                                         *)
(* Island objects are immutable and compared by reference in the source    *)
(* (===); `oid` names the allocation, so that equality of references is    *)
(* reference equality.                                                     *)
(***************************************************************************)
EXTENDS Integers, Sequences, FiniteSets, TLC

\* ------------------------------------------------------------------ bounds

\* Events handled against one render before the deferred render lands: the
\* mousemove or timer callback that queued it and those that follow.
MaxPending == 2

\* ------------------------------------------------------------------ data

\* type Point (value, x, y, remainingConnections); `bridges.horizontal` and
\* `bridges.vertical` are never written after construction and are left out.
Point(x, y, value, rem, oid) ==
  [x |-> x, y |-> y, value |-> value, remainingConnections |-> rem, oid |-> oid]

\* null for selectedPoint and for an unmatched find().
NoPoint == Point(-1, -1, 0, 0, 0)

\* A reference to an island object: of the object a Bridge holds as start or
\* end only x and y are ever read, so the model keeps position and identity.
Ref(p) == [x |-> p.x, y |-> p.y, oid |-> p.oid]

\* type Bridge
Bridge(id, start, end, count, isVertical) ==
  [id |-> id, start |-> Ref(start), end |-> Ref(end), count |-> count,
   isVertical |-> isVertical]

\* A fallback board of two islands of value 1.
FallbackBoardOfOnes == << <<0, 0, 1>>, <<1, 0, 1>> >>

\* The fallback board returned by generateValidPuzzle (two islands of value 2).
FallbackBoard == << <<0, 0, 2>>, <<1, 0, 2>> >>

\* A board generateValidPuzzle('easy') can return: five islands on the 5x5
\* grid, spanning tree A-B, A-C, B-D, B-E, with A-B and A-C upgraded to
\* double by the two extras (floor(5/2)); C-D is a candidate edge left unused.
\*   A=(0,0) 4   B=(2,0) 4   E=(4,0) 1
\*   C=(0,2) 2   D=(2,2) 1
EasyBoard ==
  << <<0, 0, 4>>, <<2, 0, 4>>, <<0, 2, 2>>, <<2, 2, 1>>, <<4, 0, 1>> >>

\* The outputs of generateValidPuzzle the session is run on.
Puzzles == {FallbackBoard, EasyBoard}

\* The gestures the pointer makes, <<from, to>>: an island at `from` is
\* pressed while none is selected, and an island at `to` is then pressed or
\* hovered.  On FallbackBoard the pair is played both ways; on EasyBoard
\* A->B (room for four lines), B->E, A->E (blocked by B) and A->D (not
\* aligned).
Gestures ==
  { << <<0, 0>>, <<1, 0>> >>, << <<1, 0>>, <<0, 0>> >>,
    << <<0, 0>>, <<2, 0>> >>, << <<2, 0>>, <<4, 0>> >>,
    << <<0, 0>>, <<4, 0>> >>, << <<0, 0>>, <<2, 2>> >> }

\* A second board generateValidPuzzle('easy') can return: spanning tree A-B,
\* A-C, B-D, B-E, then C-D added and B-E upgraded to double by the extras.
\*   A=(0,1) 2   B=(2,1) 4   E=(4,1) 2
\*   C=(0,3) 2   D=(2,3) 2
SplitBoard ==
  << <<0, 1, 2>>, <<2, 1, 4>>, <<0, 3, 2>>, <<2, 3, 2>>, <<4, 1, 2>> >>

\* The gestures made on SplitBoard: A->C, B->D and B->E.
SplitGestures ==
  { << <<0, 1>>, <<0, 3>> >>, << <<2, 1>>, <<2, 3>> >>,
    << <<2, 1>>, <<4, 1>> >> }

\* The gestures made on FallbackBoard alone: A->B.
FallbackGestures == { << <<0, 0>>, <<1, 0>> >> }

\* type Mode, the modes played.
Modes == {"easy", "normal"}

\* MODES_CONFIG
MODES_CONFIG ==
  [easy   |-> [gridSize |-> 5, minIslands |-> 5, maxIslands |-> 8],
   normal |-> [gridSize |-> 7, minIslands |-> 8, maxIslands |-> 14],
   insane |-> [gridSize |-> 9, minIslands |-> 12, maxIslands |-> 20]]

\* SCORE_MULTIPLIERS
SCORE_MULTIPLIERS == [easy |-> 1, normal |-> 2, insane |-> 4]

\* The player stops pressing islands once currentScore has reached this.
MaxScore == 2

\* The player stops pressing islands while this many updateScore() calls
\* are under way.
MaxTasks == 2

\* The most loadRandomPuzzle timeouts pending at a time.
MaxTimers == 2

\* A board generateValidPuzzle('normal') can return: eight islands on the
\* 7x7 grid in two rows; spanning tree of the upper row and the four
\* columns, then the three edges of the lower row added and A-B upgraded to
\* double by the four extras (floor(8/2)).
\*   A=(0,0) 3   B=(2,0) 4   C=(4,0) 3   D=(6,0) 2
\*   E=(0,2) 2   F=(2,2) 3   G=(4,2) 3   H=(6,2) 2
NormalBoard ==
  << <<0, 0, 3>>, <<2, 0, 4>>, <<4, 0, 3>>, <<6, 0, 2>>,
     <<0, 2, 2>>, <<2, 2, 3>>, <<4, 2, 3>>, <<6, 2, 2>> >>

\* The outputs of generateValidPuzzle(mode) a session with mode changes is
\* run on: the fallback board, which every mode can return, and a board of
\* the mode.
ModePuzzles ==
  [easy |-> {FallbackBoard, EasyBoard}, normal |-> {FallbackBoard, NormalBoard}]

\* What a run is played with: the boards generateValidPuzzle returns in it
\* for each mode, the gestures the pointer makes, how many further events
\* can be handled against a render whose updates are queued, and whether
\* the mode buttons and the username form are used.
LedgerInput ==
  [puzzles |-> [m \in Modes |-> Puzzles], gestures |-> Gestures,
   stale |-> MaxPending - 1, session |-> FALSE]
SplitInput ==
  [puzzles |-> [m \in Modes |-> {SplitBoard}], gestures |-> SplitGestures,
   stale |-> 0, session |-> FALSE]
SessionInput ==
  [puzzles |-> [m \in Modes |-> {FallbackBoard}],
   gestures |-> FallbackGestures, stale |-> 0, session |-> TRUE]
ModeInput ==
  [puzzles |-> ModePuzzles, gestures |-> FallbackGestures, stale |-> 0,
   session |-> TRUE]

\* ------------------------------------------------------------------ helpers

SeqToSet(s) == {s[i] : i \in DOMAIN s}

RECURSIVE SelectSeqIdx(_, _, _)
\* Array.prototype.filter with an index predicate: keeps s[i] for i in keep.
SelectSeqIdx(s, keep, i) ==
  IF i > Len(s) THEN << >>
  ELSE (IF i \in keep THEN <<s[i]>> ELSE << >>) \o SelectSeqIdx(s, keep, i + 1)

Min(a, b) == IF a < b THEN a ELSE b
Max(a, b) == IF a > b THEN a ELSE b

\* Every island object a state record refers to.
LiveObjects(s) ==
  {Ref(p) : p \in SeqToSet(s.board) \cup {s.selectedPoint}}
    \cup {s.bridges[i].start : i \in DOMAIN s.bridges}
    \cup {s.bridges[i].end : i \in DOMAIN s.bridges}

\* The allocation of a new object at (x, y): an identity no object that is
\* still referenced from the states in ctx carries.
FreshOid(x, y, ctx) ==
  LET used == {p.oid : p \in {q \in UNION {LiveObjects(s) : s \in ctx} :
                                  q.x = x /\ q.y = y}}
  IN  IF used = {} THEN 1
      ELSE 1 + CHOOSE n \in used : \A m \in used : m <= n

\* createUniqueId(): an id no bridge still referenced from the states in ctx
\* carries.
createUniqueId(ctx) ==
  LET used == UNION {{s.bridges[i].id : i \in DOMAIN s.bridges} : s \in ctx}
  IN  IF used = {} THEN 1
      ELSE 1 + CHOOSE n \in used : \A m \in used : m <= n


\* ------------------------------------------------------------------ generator

\* The configuration generateValidPuzzle is run with (MODES_CONFIG[mode]):
\* a grid of GenGridSize x GenGridSize cells, GenMinIslands..GenMaxIslands
\* islands.
GenGridSize == 3
GenMinIslands == 2
GenMaxIslands == 3

\* for (let attempt = 0; attempt < 100; attempt++)
MaxAttempts == 100

\* The cells Math.floor(Math.random() * gridSize) can give.
GenCells == (0 .. GenGridSize - 1) \X (0 .. GenGridSize - 1)

\* The arrays of k pairwise different elements of S.
Arrangements(S, k) ==
  {s \in [1 .. k -> S] : \A i, j \in 1 .. k : i # j => s[i] # s[j]}

\* What the rejection sampler can end with: islandCount positions, no two
\* the same.
SampledPositions ==
  UNION {Arrangements(GenCells, k) : k \in GenMinIslands .. GenMaxIslands}

\* The grid and the most islands of the attempts followed statement by
\* statement.
StepGridSize == 3
StepMaxIslands == 4

\* Row by row, the number of a cell.
CellNo(c) == c[2] * StepGridSize + c[1]

\* The positions of those attempts: 2..StepMaxIslands different cells.  The
\* order of the draws only numbers the islands, so they are taken row by
\* row.
StepPositions ==
  LET cells == (0 .. StepGridSize - 1) \X (0 .. StepGridSize - 1) IN
    {s \in UNION {Arrangements(cells, k) : k \in 2 .. StepMaxIslands} :
       \A i, j \in DOMAIN s : i < j => CellNo(s[i]) < CellNo(s[j])}

\* A test that sees no island in between.
hasIslandInBetweenNever(start, end, all) == FALSE

\* hasIslandInBetween(start, end, all), islands given by their index in all.
hasIslandInBetween(start, end, all) ==
  IF all[start][1] # all[end][1] /\ all[start][2] # all[end][2] THEN TRUE
  ELSE
    \E p \in DOMAIN all :
      IF p = start \/ p = end THEN FALSE
      ELSE IF all[start][1] = all[end][1]
      THEN /\ all[p][1] = all[start][1]
           /\ all[p][2] > Min(all[start][2], all[end][2])
           /\ all[p][2] < Max(all[start][2], all[end][2])
      ELSE /\ all[p][2] = all[start][2]
           /\ all[p][1] > Min(all[start][1], all[end][1])
           /\ all[p][1] < Max(all[start][1], all[end][1])

\* Step 2: the potential edges <<i, j>>, i < j, on one row or column with no
\* island in between.
PotentialEdges(islands) ==
  {e \in (DOMAIN islands) \X (DOMAIN islands) :
     /\ e[1] < e[2]
     /\ islands[e[1]][1] = islands[e[2]][1]
          \/ islands[e[1]][2] = islands[e[2]][2]
     /\ ~hasIslandInBetween(e[1], e[2], islands)}

\* shuffleArray(potential): the orders Fisher-Yates can leave the array in.
shuffleArray(potential) == Arrangements(potential, Cardinality(potential))

RECURSIVE find(_, _)
\* find(a) of unionFindInit: the root of a's chain of parents (path
\* compression shortens the chains and moves no root).
find(parent, a) == IF parent[a] = a THEN a ELSE find(parent, parent[a])

\* A union that hangs b itself under a.
unionOfNodes(parent, a, b) == [parent EXCEPT ![b] = a]

\* union(a, b)
union(parent, a, b) == [parent EXCEPT ![find(parent, b)] = find(parent, a)]

\* sameSet(a, b)
sameSet(parent, a, b) == find(parent, a) = find(parent, b)

RECURSIVE SpanningEdges(_, _, _)
\* Step 3: the edges i.. of the shuffled array are taken with count 1 when
\* their endpoints are not yet in the same set.
SpanningEdges(order, parent, i) ==
  IF i > Len(order) THEN << >>
  ELSE LET e == order[i] IN
    IF ~sameSet(parent, e[1], e[2])
    THEN <<[start |-> e[1], end |-> e[2], count |-> 1]>>
           \o SpanningEdges(order, union(parent, e[1], e[2]), i + 1)
    ELSE SpanningEdges(order, parent, i + 1)

\* A search that finds no edge.
ExistingEdgeMissed(usedEdges, e) == 0

\* usedEdges.find(...): the index of the edge joining e's endpoints, 0 when
\* there is none.
ExistingEdge(usedEdges, e) ==
  LET hits == {k \in DOMAIN usedEdges :
                 \/ usedEdges[k].start = e[1] /\ usedEdges[k].end = e[2]
                 \/ usedEdges[k].start = e[2] /\ usedEdges[k].end = e[1]}
  IN  IF hits = {} THEN 0 ELSE CHOOSE k \in hits : \A m \in hits : k <= m

RECURSIVE AddExtras(_, _, _, _)
\* Step 4: going through the reshuffled array, an existing edge of count 1
\* is upgraded to 2, a missing edge is added with count 1, until
\* extrasToAdd actions are done.
AddExtras(usedEdges, order, extrasToAdd, i) ==
  IF i > Len(order) \/ extrasToAdd <= 0 THEN usedEdges
  ELSE LET k == ExistingEdge(usedEdges, order[i]) IN
    IF k > 0
    THEN IF usedEdges[k].count < 2
         THEN AddExtras([usedEdges EXCEPT ![k].count = 2], order,
                        extrasToAdd - 1, i + 1)
         ELSE AddExtras(usedEdges, order, extrasToAdd, i + 1)
    ELSE AddExtras(Append(usedEdges, [start |-> order[i][1],
                                       end |-> order[i][2], count |-> 1]),
                   order, extrasToAdd - 1, i + 1)

RECURSIVE EdgeSum(_, _, _)
\* Step 5: what the edges k.. add to the value of island p.
EdgeSum(usedEdges, p, k) ==
  IF k > Len(usedEdges) THEN 0
  ELSE (IF usedEdges[k].start = p \/ usedEdges[k].end = p
        THEN usedEdges[k].count ELSE 0) + EdgeSum(usedEdges, p, k + 1)

\* The islands <<x, y, value>> with their values summed up.
WithValues(positions, usedEdges) ==
  [p \in DOMAIN positions |->
     <<positions[p][1], positions[p][2], EdgeSum(usedEdges, p, 1)>>]

\* The discard left out: every candidate is returned.
DiscardedNever(islands) == FALSE

\* islands.some((i) => i.value === 0): the candidate is discarded.
Discarded(islands) == \E p \in DOMAIN islands : islands[p][3] = 0

\* ------------------------------------------------------------------ state

VARIABLES
  st,          \* the hooks: board, bridges, selectedPoint, isDragging,
               \* isGameWon, isLoading
  effectDue,   \* the effect on [mode, isUpdatingScore] has to run (on mount,
               \* and when one of the two has changed)
  loadTimer,   \* loadRandomPuzzle timeouts scheduled, oldest first: the mode
               \* each closure holds, and whether a newer request was issued
  hist,        \* history: the last event (op, applied, pair) and the run of
               \* consecutive applied requests it belongs to
  input,       \* what the run is played with (never changes)
  ses,         \* the hooks mode, username (named), showUsernameModal,
               \* isUpdatingScore, currentScore
  scoreTasks,  \* the updateScore() calls under way
  gen,         \* history of the current board: the mode it was generated
               \* for, whether its request had been superseded, its score
               \* events
  gv,          \* a call of generateValidPuzzle: attempts made, outcome
  db,          \* the high_scores row of one username and the upsert calls
               \* for it that are under way
  cand         \* one attempt of generateValidPuzzle, statement by statement

vars == <<st, effectDue, loadTimer, hist, input, ses, scoreTasks, gen, gv, db, cand>>

\* What the pointer handlers leave alone.
session == <<input, ses, scoreTasks, gen, gv, db, cand>>

\* ------------------------------------------------------------------ validator

\* A validator that forgets the islands in between: only the alignment and
\* the remainingConnections of the two islands are tested.
isValidConnectionUnblocked(board, start, end) ==
  /\ start.x = end.x \/ start.y = end.y
  /\ start.remainingConnections > 0
  /\ end.remainingConnections > 0

\* isValidConnection(start, end), reading the closure's board.
isValidConnection(board, start, end) ==
  IF start.x # end.x /\ start.y # end.y THEN FALSE
  ELSE IF start.remainingConnections <= 0 \/ end.remainingConnections <= 0
  THEN FALSE
  ELSE
    LET blocked ==
          \E i \in DOMAIN board :
            LET p == board[i] IN
              IF p = start \/ p = end THEN FALSE
              ELSE IF start.x = end.x
              THEN p.x = start.x /\ p.y > Min(start.y, end.y)
                                 /\ p.y < Max(start.y, end.y)
              ELSE p.y = start.y /\ p.x > Min(start.x, end.x)
                                 /\ p.x < Max(start.x, end.x)
    IN  ~blocked

\* ------------------------------------------------------------------ ledger

\* An update that takes `change` from the value of the two islands as well.
updatePointConnectionsAndValue(old, start, end, change, ctx) ==
  [i \in DOMAIN old |->
     LET p == old[i] IN
       IF (p.x = start.x /\ p.y = start.y) \/ (p.x = end.x /\ p.y = end.y)
       THEN Point(p.x, p.y, p.value - change, p.remainingConnections - change,
                  FreshOid(p.x, p.y, ctx))
       ELSE p]

\* The board after setBoard(old => old.map(...)) of updatePointConnections:
\* the islands at the coordinates of start and end are replaced by copies
\* with remainingConnections - change.
updatePointConnections(old, start, end, change, ctx) ==
  [i \in DOMAIN old |->
     LET p == old[i] IN
       IF (p.x = start.x /\ p.y = start.y) \/ (p.x = end.x /\ p.y = end.y)
       THEN Point(p.x, p.y, p.value, p.remainingConnections - change,
                  FreshOid(p.x, p.y, ctx))
       ELSE p]

\* bridges.findIndex(...) of addOrUpdateBridge; 0 stands for -1.
findIndex(bridges, start, end) ==
  LET hits == {i \in DOMAIN bridges :
                 \/ (bridges[i].start = Ref(start) /\ bridges[i].end = Ref(end))
                 \/ (bridges[i].start = Ref(end) /\ bridges[i].end = Ref(start))}
  IN  IF hits = {} THEN 0 ELSE CHOOSE i \in hits : \A j \in hits : i <= j

\* addOrUpdateBridge(start, end): v is the closure (its `bridges`), s the
\* state the queued updates are applied to.
addOrUpdateBridge(v, s, start, end, ctx) ==
  LET idx == findIndex(v.bridges, start, end) IN
    IF idx > 0
    THEN
      LET existing == v.bridges[idx] IN
        IF existing.count >= 2
        THEN [s EXCEPT
                !.bridges = SelectSeqIdx(@, DOMAIN @ \ {idx}, 1),
                !.board = updatePointConnections(@, start, end, -2, ctx)]
        ELSE [s EXCEPT
                !.bridges = [v.bridges EXCEPT ![idx].count = 2],
                !.board = updatePointConnections(@, start, end, 1, ctx)]
    ELSE
      LET newBridge == Bridge(createUniqueId(ctx), start, end, 1,
                              start.x = end.x)
      IN  [s EXCEPT
             !.bridges = Append(@, newBridge),
             !.board = updatePointConnections(@, start, end, 1, ctx)]

\* ------------------------------------------------------------------ handlers

\* A click handler that forgets to ask the validator before it connects.
handlePointClickUnvalidated(v, s, pt, ctx) ==
  IF v.selectedPoint = NoPoint
  THEN [s EXCEPT !.selectedPoint = pt, !.isDragging = TRUE]
  ELSE IF pt = v.selectedPoint
  THEN [s EXCEPT !.selectedPoint = NoPoint, !.isDragging = FALSE]
  ELSE [addOrUpdateBridge(v, s, v.selectedPoint, pt, ctx) EXCEPT
          !.selectedPoint = NoPoint, !.isDragging = FALSE]

\* handlePointClick(pt)
handlePointClick(v, s, pt, ctx) ==
  IF v.selectedPoint = NoPoint
  THEN [s EXCEPT !.selectedPoint = pt, !.isDragging = TRUE]
  ELSE IF pt = v.selectedPoint
  THEN [s EXCEPT !.selectedPoint = NoPoint, !.isDragging = FALSE]
  ELSE
    LET s1 == IF isValidConnection(v.board, v.selectedPoint, pt)
              THEN addOrUpdateBridge(v, s, v.selectedPoint, pt, ctx)
              ELSE s
    IN  [s1 EXCEPT !.selectedPoint = NoPoint, !.isDragging = FALSE]

\* A bridge click that updates the bridge list and forgets to restore the
\* islands.
handleBridgeClickNoRestore(s, bridge, ctx) ==
  IF bridge.count > 1
  THEN [s EXCEPT
          !.bridges = [i \in DOMAIN @ |->
                         IF @[i].id = bridge.id
                         THEN [@[i] EXCEPT !.count = 1] ELSE @[i]]]
  ELSE [s EXCEPT !.bridges = SelectSeq(@, LAMBDA b : b.id # bridge.id)]

\* handleBridgeClick(bridge): both branches restore 1 to the islands at the
\* bridge's endpoint coordinates.
handleBridgeClick(s, bridge, ctx) ==
  LET restored ==
        [i \in DOMAIN s.board |->
           LET p == s.board[i] IN
             IF \/ (p.x = bridge.start.x /\ p.y = bridge.start.y)
                \/ (p.x = bridge.end.x /\ p.y = bridge.end.y)
             THEN Point(p.x, p.y, p.value, p.remainingConnections + 1,
                        FreshOid(p.x, p.y, ctx))
             ELSE p]
  IN  IF bridge.count > 1
      THEN [s EXCEPT
              !.bridges = [i \in DOMAIN @ |->
                             IF @[i].id = bridge.id
                             THEN [@[i] EXCEPT !.count = 1] ELSE @[i]],
              !.board = restored]
      ELSE [s EXCEPT
              !.bridges = SelectSeq(@, LAMBDA b : b.id # bridge.id),
              !.board = restored]

\* The island the pointer is near in handleMouseMove: islands have distinct
\* integer coordinates, so at most one is within 0.5 on both axes; tgt is
\* that island (NoPoint when there is none).
nearIsland(v, tgt) ==
  IF tgt # NoPoint /\ tgt # v.selectedPoint THEN tgt ELSE NoPoint

\* handleMouseMove(e).  dragLine, the pixel position of the preview line, is
\* written here and read only by getDragLineStyles; it is left out of the
\* state.
handleMouseMove(v, s, tgt, ctx) ==
  IF ~v.isDragging \/ v.selectedPoint = NoPoint THEN s
  ELSE IF Len(v.board) = 0 THEN s
  ELSE
    LET near == nearIsland(v, tgt) IN
      IF near # NoPoint /\ isValidConnection(v.board, v.selectedPoint, near)
      THEN [addOrUpdateBridge(v, s, v.selectedPoint, near, ctx) EXCEPT
              !.selectedPoint = NoPoint, !.isDragging = FALSE]
      ELSE s

\* handleMouseUp()
handleMouseUp(s) ==
  [s EXCEPT !.isDragging = FALSE, !.selectedPoint = NoPoint]

\* A win check that is content with one full island.
WinCheckSome(board, old) ==
  IF Len(board) > 0
  THEN \E i \in DOMAIN board : board[i].remainingConnections = 0
  ELSE old

\* The win-check effect: isGameWon after a render of `board`.
WinCheck(board, old) ==
  IF Len(board) > 0
  THEN \A i \in DOMAIN board : board[i].remainingConnections = 0
  ELSE old

\* A puzzle as generateValidPuzzle returns it: fresh island objects with
\* remainingConnections = value.
NewBoard(puzzle, ctx) ==
  [i \in DOMAIN puzzle |->
     Point(puzzle[i][1], puzzle[i][2], puzzle[i][3], puzzle[i][3],
           FreshOid(puzzle[i][1], puzzle[i][2], ctx))]

\* A timeout callback that leaves isLoading as it is.
installPuzzleStillLoading(s, puzzle, ctx) ==
  [s EXCEPT !.board = NewBoard(puzzle, ctx), !.bridges = << >>,
            !.selectedPoint = NoPoint, !.isDragging = FALSE,
            !.isGameWon = FALSE]

\* The state updates of the loadRandomPuzzle timeout callback.
installPuzzle(s, puzzle, ctx) ==
  [s EXCEPT !.board = NewBoard(puzzle, ctx), !.bridges = << >>,
            !.selectedPoint = NoPoint, !.isDragging = FALSE,
            !.isGameWon = FALSE, !.isLoading = FALSE]

\* The state updates of the mount / mode-change effect.
modeEffect(s, puzzle, ctx) ==
  [s EXCEPT !.board = NewBoard(puzzle, ctx), !.bridges = << >>,
            !.isGameWon = FALSE, !.selectedPoint = NoPoint,
            !.isDragging = FALSE]


\* ------------------------------------------------------------------ history

Pos(p) == <<p.x, p.y>>

\* The unordered coordinate pair of two islands.
PairOf(p, q) == {Pos(p), Pos(q)}

\* The bridges of a bridge list that join the coordinate pair pr.
PairBridges(bridges, pr) ==
  {i \in DOMAIN bridges : PairOf(bridges[i].start, bridges[i].end) = pr}

\* The island of a board at a position (NoPoint when there is none).
IslandAt(board, pos) ==
  IF \E i \in DOMAIN board : Pos(board[i]) = pos
  THEN board[CHOOSE i \in DOMAIN board : Pos(board[i]) = pos]
  ELSE NoPoint

NoRun == [pair |-> {}, n |-> 0, rem0 |-> << >>]

\* Longest run of consecutive applied requests that is counted.
RunCap == 5

\* The run after an applied primary-cycle request on the pair of (a, b), s
\* being the state before it: the number of consecutive applied requests on
\* that pair since it was Absent, and both endpoints' remainingConnections
\* before the first.
RunAfter(run, s, a, b) ==
  LET pr == PairOf(a, b) IN
    IF run.n > 0 /\ run.pair = pr
    THEN [run EXCEPT !.n = Min(@ + 1, RunCap)]
    ELSE IF PairBridges(s.bridges, pr) = {}
    THEN [pair |-> pr, n |-> 1,
          rem0 |-> [pos \in pr |-> IslandAt(s.board, pos).remainingConnections]]
    ELSE NoRun

\* What the ledger shows: the islands without their identity, the bridges
\* without identity and id.
LedgerOf(s) ==
  [board |-> [i \in DOMAIN s.board |->
                <<s.board[i].x, s.board[i].y, s.board[i].value,
                  s.board[i].remainingConnections>>],
   bridges |-> [i \in DOMAIN s.bridges |->
                  <<s.bridges[i].start.x, s.bridges[i].start.y,
                    s.bridges[i].end.x, s.bridges[i].end.y,
                    s.bridges[i].count, s.bridges[i].isVertical>>]]

RECURSIVE LineCount(_, _, _)
\* The lines drawn between the coordinate pair pr: the sum of the counts of
\* the bridges i.. of the list that join it.
LineCount(bridges, pr, i) ==
  IF i > Len(bridges) THEN 0
  ELSE (IF PairOf(bridges[i].start, bridges[i].end) = pr
        THEN bridges[i].count ELSE 0) + LineCount(bridges, pr, i + 1)

\* The ledger the reduction path asks for when the bridge with this id is
\* clicked in s: a count of 2 becomes 1, a bridge of count 1 leaves the list,
\* the islands at the bridge's endpoints get 1 back, nothing else changes.
ReductionPath(s, id) ==
  LET k == CHOOSE i \in DOMAIN s.bridges : s.bridges[i].id = id
      b == s.bridges[k]
      led == LedgerOf(s)
  IN  [board |-> [i \in DOMAIN led.board |->
                    IF Pos(s.board[i]) \in PairOf(b.start, b.end)
                    THEN [led.board[i] EXCEPT ![4] = @ + 1]
                    ELSE led.board[i]],
       bridges |-> IF b.count = 2
                   THEN [led.bridges EXCEPT ![k][5] = 1]
                   ELSE SelectSeqIdx(led.bridges, DOMAIN led.bridges \ {k}, 1)]

\* The event that took board b0 to b1 kept the islands, their coordinates
\* and values, and changed remainingConnections at most at the pair pr.
Framed(b0, b1, pr) ==
  /\ Len(b1) = Len(b0)
  /\ \A i \in DOMAIN b0 :
       /\ b1[i].x = b0[i].x /\ b1[i].y = b0[i].y
       /\ b1[i].value = b0[i].value
       /\ b1[i].remainingConnections # b0[i].remainingConnections
            => Pos(b0[i]) \in pr

\* The history of a ledger event (op "request" or "reduce") on the pair pr
\* that took s0 to s1: whether it was applied (validated, or its bridge
\* found), whether the ledger changed, the lines the pair had before, what
\* each endpoint's remainingConnections gained, and for a reduce of a bridge
\* that is in s0 whether s1 is what the reduction path asks for.
Event(op, applied, pr, run, batch, s0, s1, id) ==
  [op |-> op, applied |-> applied, pair |-> pr, run |-> run, batch |-> batch,
   changed |-> LedgerOf(s1) # LedgerOf(s0),
   framed |-> Framed(s0.board, s1.board, pr),
   had |-> LineCount(s0.bridges, pr, 1),
   gain |-> [pos \in pr |->
               IslandAt(s1.board, pos).remainingConnections
                 - IslandAt(s0.board, pos).remainingConnections],
   reduced |-> op = "reduce" /\ applied
               /\ LedgerOf(s1) = ReductionPath(s0, id)]

\* The history after an event that is no ledger request.
Other(run) ==
  [op |-> "other", applied |-> FALSE, pair |-> {}, run |-> run, batch |-> 1,
   changed |-> FALSE, framed |-> TRUE, had |-> 0, gain |-> << >>, reduced |-> FALSE]

\* ------------------------------------------------------------------ identities

\* Object identities and bridge ids are opaque: the source only tests them
\* for equality.  States are kept up to a renaming of them: the objects at
\* one position that are still referenced are numbered 1, 2, ... in the
\* order of their allocation, and the bridge ids likewise.

RECURSIVE BridgeRefs(_, _)
BridgeRefs(bridges, i) ==
  IF i > Len(bridges) THEN << >>
  ELSE <<bridges[i].start, bridges[i].end>> \o BridgeRefs(bridges, i + 1)

RefsOf(s) ==
  [i \in DOMAIN s.board |-> Ref(s.board[i])] \o <<Ref(s.selectedPoint)>>
    \o BridgeRefs(s.bridges, 1)

IdsOf(s) == [i \in DOMAIN s.bridges |-> s.bridges[i].id]

RenamedOid(r, refs) ==
  IF r.x = -1 THEN 0
  ELSE Cardinality({o \in {refs[j].oid : j \in
                             {k \in DOMAIN refs : refs[k].x = r.x
                                                  /\ refs[k].y = r.y}} :
                      o <= r.oid})

RenamedId(id, ids) == Cardinality({j \in DOMAIN ids : ids[j] <= id})

Renamed(s) ==
  LET refs == RefsOf(s)
      ids == IdsOf(s)
  IN  [s EXCEPT
         !.board = [i \in DOMAIN @ |->
                      [@[i] EXCEPT !.oid = RenamedOid(Ref(s.board[i]), refs)]],
         !.selectedPoint =
            [@ EXCEPT !.oid = RenamedOid(Ref(s.selectedPoint), refs)],
         !.bridges = [i \in DOMAIN @ |->
                        [@[i] EXCEPT
                           !.id = RenamedId(s.bridges[i].id, ids),
                           !.start.oid = RenamedOid(s.bridges[i].start, refs),
                           !.end.oid = RenamedOid(s.bridges[i].end, refs)]]]

\* ------------------------------------------------------------------ rendering

\* The committed render of the state s: the win-check effect runs on the
\* rendered board and sets isGameWon.
Rendered(s) ==
  Renamed([s EXCEPT !.isGameWon = WinCheck(s.board, s.isGameWon)])

\* A batch in progress: s the state the queued updates have produced, v the
\* render the closures read, h the history, ok whether the last event could
\* be delivered and acted.
Batch(s, v, h) == [s |-> s, v |-> v, h |-> h, ok |-> TRUE]

\* onMouseMove handled against v while the batch is at s, the pointer near
\* the cell pos.
MoveIn(acc, pos) ==
  LET v == acc.v
      tgt == IslandAt(v.board, pos)
      near == nearIsland(v, tgt)
      applied == /\ v.isDragging /\ v.selectedPoint # NoPoint
                 /\ near # NoPoint
                 /\ isValidConnection(v.board, v.selectedPoint, near)
      s1 == handleMouseMove(v, acc.s, tgt, {acc.s, v})
  IN  [s |-> s1,
       v |-> v,
       h |-> Event("request", applied, PairOf(v.selectedPoint, near),
                   IF applied
                   THEN RunAfter(acc.h.run, acc.s, v.selectedPoint, near)
                   ELSE acc.h.run,
                   acc.h.batch + 1, acc.s, s1, 0),
       ok |-> v.isDragging /\ v.selectedPoint # NoPoint /\ near # NoPoint]

\* A click on the bridge line k rendered in v: the browser delivers mouseup
\* (which bubbles to the game area's handleMouseUp) and then click.  Both
\* are discrete events, so v shows their updates afterwards.
ClickIn(acc, k) ==
  LET v == acc.v
      bridge == v.bridges[k]
      s1 == handleBridgeClick(handleMouseUp(acc.s), bridge, {acc.s, v})
  IN  [s |-> s1,
       v |-> handleBridgeClick(handleMouseUp(v), bridge, {acc.s, v, s1}),
       h |-> Event("reduce",
                   \E i \in DOMAIN acc.s.bridges :
                     acc.s.bridges[i].id = bridge.id,
                   PairOf(bridge.start, bridge.end), NoRun,
                   acc.h.batch + 1, acc.s, s1, bridge.id),
       ok |-> TRUE]

\* The cells the pointer can hover given the selection rendered in v.
HoverCells(v) ==
  {g[2] : g \in {h \in input.gestures : h[1] = Pos(v.selectedPoint)}}

RECURSIVE Deferred(_, _)
\* The rest of a batch: up to n more events are handled against the render
\* acc.v (moves that connect, clicks on rendered bridges) before the
\* deferred render lands.
Deferred(acc, n) ==
  \/ /\ st' = Rendered(acc.s)
     /\ hist' = acc.h
  \/ /\ n > 0
     /\ \/ \E pos \in HoverCells(acc.v) :
             LET nxt == MoveIn(acc, pos) IN
               nxt.ok /\ nxt.h.applied /\ Deferred(nxt, n - 1)
        \/ \E k \in DOMAIN acc.v.bridges : Deferred(ClickIn(acc, k), n - 1)

\* ------------------------------------------------------------------ actions

\* The history after a board replacement.
Installed == [Other(NoRun) EXCEPT !.op = "install"]

\* The history of a board installed for `mode` by a request that had
\* (stale) or had not been superseded by a newer one.
NewGen(mode, stale) ==
  [boardMode |-> mode, stale |-> stale, scored |-> 0, unsolved |-> FALSE]

\* The pending loadRandomPuzzle timeouts once a newer request is issued.
Supersede(q) == [i \in DOMAIN q |-> [q[i] EXCEPT !.superseded = TRUE]]

\* The win/score effect has to act: its guard holds (each of isGameWon,
\* username, isUpdatingScore is one of its dependencies).
ScoreEffectDue == st.isGameWon /\ ses.named /\ ~ses.isUpdatingScore

\* The effects of the last render have run.
Settled == ~effectDue /\ ~ScoreEffectDue

\* The username modal (fixed, covering the window) is out of the way.
Interactive == input.session => ~ses.showUsernameModal

\* The player is at the board.
Playing ==
  /\ Interactive
  /\ ses.currentScore < MaxScore
  /\ Len(scoreTasks) < MaxTasks

\* No attempt of the generator is followed.
NoCandidate == [stage |-> "none"]

\* The hooks after construction, for a run played with `in`.
Hooks(in) ==
  /\ st = [board |-> << >>, bridges |-> << >>, selectedPoint |-> NoPoint,
           isDragging |-> FALSE, isGameWon |-> FALSE, isLoading |-> FALSE]
  /\ effectDue = TRUE
  /\ loadTimer = << >>
  /\ hist = Other(NoRun)
  /\ input = in
  /\ ses = [mode |-> "easy", named |-> FALSE, showUsernameModal |-> TRUE,
            isUpdatingScore |-> FALSE, currentScore |-> 0]
  /\ scoreTasks = << >>
  /\ gen = NewGen("easy", FALSE)
  /\ gv = [attempt |-> 0, status |-> "running", board |-> << >>,
           edges |-> << >>]
  /\ db = [score |-> 0, calls |-> << >>, lowered |-> FALSE]

\* The state after construction, for a run played with `in`.
Start(in) == Hooks(in) /\ cand = NoCandidate

Init == Start(LedgerInput)

\* The effect on [mode, isUpdatingScore]: generates a puzzle for the mode
\* unless a score update is under way.
ModeEffect ==
  /\ effectDue
  /\ IF ~ses.isUpdatingScore
     THEN /\ \E puzzle \in input.puzzles[ses.mode] :
               st' = Rendered(modeEffect(st, puzzle, {st}))
          /\ hist' = Installed
          /\ gen' = NewGen(ses.mode, FALSE)
          /\ loadTimer' = Supersede(loadTimer)
     ELSE UNCHANGED <<st, hist, gen, loadTimer>>
  /\ effectDue' = FALSE
  /\ UNCHANGED <<input, ses, scoreTasks, gv, db, cand>>

\* onMouseDown of an island of the rendered board.
MouseDownOnIsland ==
  /\ Settled /\ Playing
  /\ \E k \in DOMAIN st.board :
       LET pt == st.board[k]
           request == st.selectedPoint # NoPoint /\ pt # st.selectedPoint
           applied == request
                      /\ isValidConnection(st.board, st.selectedPoint, pt)
           s1 == handlePointClick(st, st, pt, {st})
       IN  /\ IF st.selectedPoint = NoPoint
              THEN Pos(pt) \in {g[1] : g \in input.gestures}
              ELSE pt = st.selectedPoint \/ Pos(pt) \in HoverCells(st)
           /\ st' = Rendered(s1)
           /\ hist' = IF request
                      THEN Event("request", applied,
                                 PairOf(st.selectedPoint, pt),
                                 IF applied
                                 THEN RunAfter(hist.run, st,
                                               st.selectedPoint, pt)
                                 ELSE hist.run,
                                 1, st, s1, 0)
                      ELSE Other(hist.run)
  /\ UNCHANGED <<effectDue, loadTimer>>
  /\ UNCHANGED session

\* onMouseMove of the game area, the pointer near the cell pos.  A move that
\* connects nothing queues only the preview line; one that connects queues
\* the ledger updates for a later render, and further events may be handled
\* before it.
MouseMove ==
  /\ Settled /\ Playing
  /\ \E pos \in HoverCells(st) :
       LET first == MoveIn(Batch(st, st, [hist EXCEPT !.batch = 0]), pos) IN
         /\ first.ok
         /\ IF first.h.applied
            THEN Deferred(first, input.stale)
            ELSE st' = Rendered(first.s) /\ hist' = first.h
  /\ UNCHANGED <<effectDue, loadTimer>>
  /\ UNCHANGED session

\* onMouseUp / onMouseLeave of the game area.
MouseUp ==
  /\ Settled /\ Interactive
  /\ st' = Rendered(handleMouseUp(st))
  /\ hist' = Other(hist.run)
  /\ UNCHANGED <<effectDue, loadTimer>>
  /\ UNCHANGED session

\* A click on a rendered bridge line.
ClickOnBridge ==
  /\ Settled /\ Interactive
  /\ \E k \in DOMAIN st.bridges :
       LET end == ClickIn(Batch(st, st, [hist EXCEPT !.batch = 0]), k) IN
         /\ st' = Rendered(end.s)
         /\ hist' = end.h
  /\ UNCHANGED <<effectDue, loadTimer>>
  /\ UNCHANGED session

\* A click on the New Puzzle button (disabled while isLoading is rendered):
\* loadRandomPuzzle up to its setTimeout.
ClickNewPuzzle ==
  /\ Settled /\ Interactive
  /\ ~st.isLoading
  /\ Len(loadTimer) < MaxTimers
  /\ st' = Rendered([st EXCEPT !.isLoading = TRUE])
  /\ loadTimer' = Append(Supersede(loadTimer),
                         [mode |-> ses.mode, superseded |-> FALSE])
  /\ hist' = Other(hist.run)
  /\ UNCHANGED effectDue
  /\ UNCHANGED session

\* The timeout callback of the oldest loadRandomPuzzle call: it generates a
\* puzzle for the mode its closure holds; its updates are queued for a later
\* render, and further events may be handled before it.  The effect on
\* [mode, isUpdatingScore] runs again if isUpdatingScore changes.
LoadTimerFires ==
  /\ Settled
  /\ Len(loadTimer) > 0
  /\ \E puzzle \in input.puzzles[loadTimer[1].mode] :
       Deferred(Batch(installPuzzle(st, puzzle, {st}), st, Installed),
                input.stale)
  /\ loadTimer' = Tail(loadTimer)
  /\ ses' = [ses EXCEPT !.isUpdatingScore = FALSE]
  /\ effectDue' = ses.isUpdatingScore
  /\ gen' = NewGen(loadTimer[1].mode, loadTimer[1].superseded)
  /\ UNCHANGED <<input, scoreTasks, gv, db, cand>>

Next ==
  \/ ModeEffect
  \/ MouseDownOnIsland
  \/ MouseMove
  \/ MouseUp
  \/ ClickOnBridge
  \/ ClickNewPuzzle
  \/ LoadTimerFires

Spec == Init /\ [][Next]_vars

\* The same handlers played on SplitBoard, every event rendered before the
\* next.
ConnectInit == Start(SplitInput)

ConnectSpec == ConnectInit /\ [][Next]_vars

\* Submit of the username form with a non-blank name: the modal goes and the
\* score starts at 0.
SubmitUsername ==
  /\ input.session
  /\ Settled
  /\ ses.showUsernameModal
  /\ ses' = [ses EXCEPT !.named = TRUE, !.showUsernameModal = FALSE,
                        !.currentScore = 0]
  /\ UNCHANGED <<st, effectDue, loadTimer, hist, input, scoreTasks, gen, gv, db, cand>>

\* A click on the button of another mode: setMode; the effect on
\* [mode, isUpdatingScore] is due.
ChangeMode ==
  /\ input.session
  /\ Settled /\ Interactive
  /\ \E m \in Modes :
       /\ m # ses.mode
       /\ ses' = [ses EXCEPT !.mode = m]
  /\ effectDue' = TRUE
  /\ UNCHANGED <<st, loadTimer, hist, input, scoreTasks, gen, gv, db, cand>>

\* Every island of the board has 0 remaining.
Solved(board) ==
  /\ Len(board) > 0
  /\ \A i \in DOMAIN board : board[i].remainingConnections = 0

\* The score event of a win/score effect that adds nothing to the score.
NewScoreUnchanged(currentScore, mode) == currentScore

\* const newScore = currentScore + SCORE_MULTIPLIERS[mode]
NewScore(currentScore, mode) == currentScore + SCORE_MULTIPLIERS[mode]

\* The win/score effect with its guard true: isUpdatingScore is set and
\* updateScore starts with the score computed now and the loadRandomPuzzle
\* of this render.  (The effect on [mode, isUpdatingScore] runs again and
\* does nothing, isUpdatingScore being true.)
ScoreEffect ==
  /\ ~effectDue
  /\ ScoreEffectDue
  /\ ses' = [ses EXCEPT !.isUpdatingScore = TRUE]
  /\ scoreTasks' =
       Append(scoreTasks,
              [stage |-> "upsert",
               newScore |-> NewScore(ses.currentScore, ses.mode),
               currentScore |-> ses.currentScore,
               isLoading |-> st.isLoading, mode |-> ses.mode])
  /\ gen' = [gen EXCEPT !.scored = Min(@ + 1, 2),
                        !.unsolved = @ \/ ~Solved(st.board)]
  /\ UNCHANGED <<st, effectDue, loadTimer, hist, input, gv, db, cand>>

\* highScoresApi.upsert of one updateScore settles: with a result the score
\* becomes the newScore of that call, with null or an exception it stays;
\* then the auto-load is scheduled (requestAnimationFrame, setTimeout 1500).
UpsertReturns ==
  /\ Settled
  /\ \E i \in DOMAIN scoreTasks :
       /\ scoreTasks[i].stage = "upsert"
       /\ \E result \in BOOLEAN :
            ses' = [ses EXCEPT !.currentScore =
                      IF result THEN scoreTasks[i].newScore ELSE @]
       /\ scoreTasks' = [scoreTasks EXCEPT ![i].stage = "timer"]
  /\ UNCHANGED <<st, effectDue, loadTimer, hist, input, gen, gv, db, cand>>

\* The 1500 ms timeout of one updateScore: loadRandomPuzzle as the effect's
\* render defined it, with that render's isLoading and mode.
AutoLoadFires ==
  /\ Settled
  /\ \E i \in DOMAIN scoreTasks :
       /\ scoreTasks[i].stage = "timer"
       /\ scoreTasks[i].isLoading \/ Len(loadTimer) < MaxTimers
       /\ scoreTasks' = SelectSeqIdx(scoreTasks, DOMAIN scoreTasks \ {i}, 1)
       /\ IF scoreTasks[i].isLoading
          THEN UNCHANGED <<st, loadTimer, hist>>
          ELSE /\ st' = Rendered([st EXCEPT !.isLoading = TRUE])
               /\ loadTimer' =
                    Append(Supersede(loadTimer),
                           [mode |-> scoreTasks[i].mode,
                            superseded |-> FALSE])
               /\ hist' = Other(hist.run)
  /\ UNCHANGED <<effectDue, input, ses, gen, gv, db, cand>>

SessionNext ==
  \/ Next
  \/ SubmitUsername
  \/ ChangeMode
  \/ ScoreEffect
  \/ UpsertReturns
  \/ AutoLoadFires

\* A session on the two-island board: username, mode changes, wins, score
\* updates and reloads, every event rendered before the next.
SessionInit == Start(SessionInput)

SessionSpec == SessionInit /\ [][SessionNext]_vars

\* ---- the session with its scheduling

\* An upsert is awaited and its answer can be handled.
UpsertPending ==
  /\ Settled
  /\ \E i \in DOMAIN scoreTasks : scoreTasks[i].stage = "upsert"

\* A 1500 ms timeout of updateScore is pending and can be handled.
AutoLoadPending ==
  /\ Settled
  /\ \E i \in DOMAIN scoreTasks :
       /\ scoreTasks[i].stage = "timer"
       /\ scoreTasks[i].isLoading \/ Len(loadTimer) < MaxTimers

\* A 300 ms timeout of loadRandomPuzzle is pending and can be handled.
LoadTimerPending == Settled /\ Len(loadTimer) > 0

\* The session of a player who connects by pressing islands.
ReloadNext ==
  \/ ModeEffect
  \/ MouseDownOnIsland
  \/ ClickOnBridge
  \/ ClickNewPuzzle
  \/ LoadTimerFires
  \/ SubmitUsername
  \/ ChangeMode
  \/ ScoreEffect
  \/ UpsertReturns
  \/ AutoLoadFires

\* The session as React and the browser schedule it.  Effects run after
\* their render (the effect on [mode, isUpdatingScore] is the only step of
\* a state where it is due, so its weak fairness is that it is not due for
\* ever).  The remote call returns or fails and timers fire whatever the
\* player does in between: each is taken again and again if it can be
\* handled again and again (strong fairness, on the guard of the step).
ReloadSpec ==
  /\ SessionInit
  /\ [][ReloadNext]_vars
  /\ WF_vars(ScoreEffect)
  /\ []<>~effectDue
  /\ ([]<>UpsertPending => []<><<UpsertReturns>>_vars)
  /\ ([]<>AutoLoadPending => []<><<AutoLoadFires>>_vars)
  /\ ([]<>LoadTimerPending => []<><<LoadTimerFires>>_vars)

\* ---- the session with boards of its modes

\* A session in which generateValidPuzzle returns boards of the mode it is
\* called for.
ModeInit == Start(ModeInput)

ModeSpec == ModeInit /\ [][SessionNext]_vars

\* ---- one attempt of generateValidPuzzle, statement by statement

RECURSIVE JoinedTo(_, _)
\* The islands joined to one of `seen` by edges of the array.
JoinedTo(seen, edges) ==
  LET more == seen \cup UNION {{edges[k].start, edges[k].end} :
                                 k \in {m \in DOMAIN edges :
                                          {edges[m].start, edges[m].end}
                                            \cap seen # {}}}
  IN  IF more = seen THEN seen ELSE JoinedTo(more, edges)

\* The attempt with its positions placed and the potential edges shuffled.
CandidateInit ==
  /\ Hooks(LedgerInput)
  /\ \E islands \in StepPositions :
       \E order \in shuffleArray(PotentialEdges(islands)) :
         cand = [stage |-> "tree", islands |-> islands, potential |-> order,
                 first |-> order, i |-> 1,
                 parent |-> [p \in DOMAIN islands |-> p],
                 usedEdges |-> << >>, tree |-> << >>, extrasToAdd |-> 0,
                 actions |-> 0, iff |-> TRUE, upgraded |-> {},
                 board |-> << >>, play |-> << >>]

\* One turn of the loop of step 3: the edge is pushed with count 1 and its
\* endpoints' sets are united unless sameSet.  `iff` keeps whether every
\* edge so far was accepted exactly when the accepted edges before it did
\* not join its endpoints.
TreeStep ==
  /\ cand.stage = "tree"
  /\ cand.i <= Len(cand.potential)
  /\ LET e == cand.potential[cand.i]
         accepted == ~sameSet(cand.parent, e[1], e[2])
     IN  cand' =
           [cand EXCEPT
              !.i = @ + 1,
              !.usedEdges =
                 IF accepted
                 THEN Append(@, [start |-> e[1], end |-> e[2], count |-> 1])
                 ELSE @,
              !.parent = IF accepted THEN union(@, e[1], e[2]) ELSE @,
              !.iff = @ /\ (accepted
                              <=> e[2] \notin JoinedTo({e[1]},
                                                       cand.usedEdges))]
  /\ UNCHANGED <<st, effectDue, loadTimer, hist, input, ses, scoreTasks, gen,
                 gv, db>>

\* Between the loops: extrasToAdd = floor(islands.length / 2) and
\* shuffleArray(potential) again.
Reshuffle ==
  /\ cand.stage = "tree"
  /\ cand.i > Len(cand.potential)
  /\ \E order \in shuffleArray(PotentialEdges(cand.islands)) :
       cand' = [cand EXCEPT !.stage = "extras", !.potential = order,
                            !.i = 1, !.tree = cand.usedEdges,
                            !.extrasToAdd = Len(cand.islands) \div 2]
  /\ UNCHANGED <<st, effectDue, loadTimer, hist, input, ses, scoreTasks, gen,
                 gv, db>>

\* One turn of the loop of step 4 that gets past its break.  `actions`
\* counts the upgrades and additions, `upgraded` keeps the edges upgraded.
ExtraStep ==
  /\ cand.stage = "extras"
  /\ cand.i <= Len(cand.potential)
  /\ cand.extrasToAdd > 0
  /\ LET e == cand.potential[cand.i]
         k == ExistingEdge(cand.usedEdges, e)
     IN  cand' =
           IF k > 0
           THEN IF cand.usedEdges[k].count < 2
                THEN [cand EXCEPT !.i = @ + 1, !.usedEdges[k].count = 2,
                                  !.extrasToAdd = @ - 1, !.actions = @ + 1,
                                  !.upgraded = @ \cup {k}]
                ELSE [cand EXCEPT !.i = @ + 1]
           ELSE [cand EXCEPT
                   !.i = @ + 1,
                   !.usedEdges =
                      Append(@, [start |-> e[1], end |-> e[2], count |-> 1]),
                   !.extrasToAdd = @ - 1, !.actions = @ + 1]
  /\ UNCHANGED <<st, effectDue, loadTimer, hist, input, ses, scoreTasks, gen,
                 gv, db>>

\* The loop of step 4 is left (array at its end, or break) and the values
\* are summed up.
Summation ==
  /\ cand.stage = "extras"
  /\ cand.i > Len(cand.potential) \/ cand.extrasToAdd <= 0
  /\ cand' = [cand EXCEPT !.stage = "summed",
                          !.board = WithValues(cand.islands, cand.usedEdges)]
  /\ UNCHANGED <<st, effectDue, loadTimer, hist, input, ses, scoreTasks, gen,
                 gv, db>>

\* The component showing a puzzle right after its installation.
Showing(puzzle) ==
  Rendered([board |-> NewBoard(puzzle, {}), bridges |-> << >>,
            selectedPoint |-> NoPoint, isDragging |-> FALSE,
            isGameWon |-> FALSE, isLoading |-> FALSE])

\* A request for one more line between the islands number a and b: mouse
\* down on a (selected), mouse down on b.  `approved` keeps whether every
\* request so far got past isValidConnection.
PlayRequest(acc, a, b) ==
  LET s1 == Rendered(handlePointClick(acc.s, acc.s, acc.s.board[a], {acc.s}))
      s2 == Rendered(handlePointClick(s1, s1, s1.board[b], {s1}))
  IN  [s |-> s2,
       approved |-> acc.approved
                    /\ isValidConnection(s1.board, s1.selectedPoint,
                                         s1.board[b])]

RECURSIVE PlayEdges(_, _, _, _)
\* The requests of a player who asks count times for each of the edges k..
\* of the array, n standing for the requests the edge k still gets.
PlayEdges(acc, edges, k, n) ==
  IF k > Len(edges) THEN acc
  ELSE IF n = 0
  THEN PlayEdges(acc, edges, k + 1,
                 IF k + 1 > Len(edges) THEN 0 ELSE edges[k + 1].count)
  ELSE PlayEdges(PlayRequest(acc, edges[k].start, edges[k].end), edges, k,
                 n - 1)

\* The candidate is returned (no island of value 0), installed, and played
\* along the generator's edges.
PlayThrough ==
  /\ cand.stage = "summed"
  /\ ~Discarded(cand.board)
  /\ LET edges == cand.usedEdges
         end == PlayEdges([s |-> Showing(cand.board), approved |-> TRUE],
                          edges, 1, edges[1].count)
     IN  cand' = [cand EXCEPT
                    !.stage = "played",
                    !.play = [approved |-> end.approved,
                              isGameWon |-> end.s.isGameWon,
                              board |-> LedgerOf(end.s).board,
                              bridges |-> Len(end.s.bridges)]]
  /\ UNCHANGED <<st, effectDue, loadTimer, hist, input, ses, scoreTasks, gen,
                 gv, db>>

CandidateNext ==
  TreeStep \/ Reshuffle \/ ExtraStep \/ Summation \/ PlayThrough

\* One attempt of the generator for every placement of up to
\* StepMaxIslands islands and every outcome of the two shuffles.
CandidateSpec == CandidateInit /\ [][CandidateNext]_vars

\* ---- highScores.upsert (utils/supabase.ts)

\* Calls of upsert for the username under way at a time.
MaxCalls == 2

\* The scores the calls carry.
MaxStored == 3

\* A call of upsert({username, score}) starts: its select is sent.
UpsertCall ==
  /\ Len(db.calls) < MaxCalls
  /\ \E score \in 1 .. MaxStored :
       db' = [db EXCEPT !.calls =
                Append(@, [score |-> score, stage |-> "select"])]
  /\ UNCHANGED <<st, effectDue, loadTimer, hist, input, ses, scoreTasks, gen,
                 gv, cand>>

\* .upsert({username, score, timestamp}, {onConflict: 'username'}): the row
\* has the score of the call, whatever it had.
Written(stored, score) == score

\* The select of one call is answered (score 0: no row).  With a row of at
\* least the call's score the call returns it; otherwise the call goes on to
\* its write.
UpsertSelect ==
  /\ \E i \in DOMAIN db.calls :
       /\ db.calls[i].stage = "select"
       /\ db' = IF db.score > 0 /\ db.score >= db.calls[i].score
                THEN [db EXCEPT !.calls =
                        SelectSeqIdx(@, DOMAIN db.calls \ {i}, 1)]
                ELSE [db EXCEPT !.calls[i].stage = "write"]
  /\ UNCHANGED <<st, effectDue, loadTimer, hist, input, ses, scoreTasks, gen,
                 gv, cand>>

\* The write of one call is done by the server, or fails (error: null is
\* returned and the row is as it was).
UpsertWrite ==
  /\ \E i \in DOMAIN db.calls :
       /\ db.calls[i].stage = "write"
       /\ \E error \in BOOLEAN :
            LET score == IF error THEN db.score
                         ELSE Written(db.score, db.calls[i].score)
            IN  db' = [score |-> score,
                       calls |-> SelectSeqIdx(db.calls,
                                              DOMAIN db.calls \ {i}, 1),
                       lowered |-> db.lowered \/ score < db.score]
  /\ UNCHANGED <<st, effectDue, loadTimer, hist, input, ses, scoreTasks, gen,
                 gv, cand>>

StoreNext == UpsertCall \/ UpsertSelect \/ UpsertWrite

\* The upsert calls for one username, from any number of clients, in any
\* interleaving of their requests.
StoreSpec == Init /\ [][StoreNext]_vars

\* One attempt of generateValidPuzzle, as one of its candidates comes out
\* for the positions and the two shuffles drawn.
Candidate(positions, first, second) ==
  LET parent == [p \in DOMAIN positions |-> p]
      tree   == SpanningEdges(first, parent, 1)
      used   == AddExtras(tree, second, Len(positions) \div 2, 1)
  IN  [islands |-> WithValues(positions, used), edges |-> used]

\* One turn of the attempt loop: the candidate is returned, or discarded
\* for an island of value 0.
GenAttempt ==
  /\ gv.status = "running"
  /\ gv.attempt < MaxAttempts
  /\ \E positions \in SampledPositions :
       \E first \in shuffleArray(PotentialEdges(positions)) :
         \E second \in shuffleArray(PotentialEdges(positions)) :
           LET c == Candidate(positions, first, second) IN
             gv' = IF Discarded(c.islands)
                   THEN [gv EXCEPT !.attempt = @ + 1]
                   ELSE [attempt |-> gv.attempt + 1, status |-> "accepted",
                         board |-> c.islands, edges |-> c.edges]
  /\ UNCHANGED <<st, effectDue, loadTimer, hist, input, ses, scoreTasks, gen,
                 db, cand>>

\* The loop is over without a return: the fallback board.
GenFallback ==
  /\ gv.status = "running"
  /\ gv.attempt >= MaxAttempts
  /\ gv' = [gv EXCEPT !.status = "fallback", !.board = FallbackBoard]
  /\ UNCHANGED <<st, effectDue, loadTimer, hist, input, ses, scoreTasks, gen,
                 db, cand>>

GenNext == GenAttempt \/ GenFallback

\* A call of generateValidPuzzle, every random draw open.
GenSpec == Init /\ [][GenNext]_vars

\* ---- generateValidPuzzle with its sampling loop turn by turn

\* The configuration of the calls followed through their sampling loop.
SampleGridSize == 2
SampleMinIslands == 2
SampleMaxIslands == 3

\* A generator of random numbers that only ever gives 0.
SampleCellsOrigin == {<<0, 0>>}

\* The cells Math.floor(Math.random() * gridSize) can give in those calls.
SampleCells == (0 .. SampleGridSize - 1) \X (0 .. SampleGridSize - 1)

\* A call of generateValidPuzzle at the head of its attempt loop.
SamplingInit ==
  /\ Hooks(LedgerInput)
  /\ cand = [stage |-> "attempt", islandCount |-> 0, positions |-> << >>]

\* An attempt begins: islandCount is drawn from minIslands..maxIslands.
DrawIslandCount ==
  /\ cand.stage = "attempt"
  /\ gv.status = "running"
  /\ gv.attempt < MaxAttempts
  /\ \E islandCount \in SampleMinIslands .. SampleMaxIslands :
       cand' = [stage |-> "sample", islandCount |-> islandCount,
                positions |-> << >>]
  /\ UNCHANGED <<st, effectDue, loadTimer, hist, input, ses, scoreTasks, gen,
                 gv, db>>

\* One turn of while (positions.length < islandCount): a cell is drawn and
\* pushed unless it is among the positions.
Sample ==
  /\ cand.stage = "sample"
  /\ Len(cand.positions) < cand.islandCount
  /\ \E cell \in SampleCells :
       cand' = IF \E k \in DOMAIN cand.positions : cand.positions[k] = cell
               THEN cand
               ELSE [cand EXCEPT !.positions = Append(@, cell)]
  /\ UNCHANGED <<st, effectDue, loadTimer, hist, input, ses, scoreTasks, gen,
                 gv, db>>

\* The sampling loop is left and the rest of the attempt is to run.
AttemptDue ==
  /\ cand.stage = "sample"
  /\ Len(cand.positions) >= cand.islandCount

\* The rest of the attempt on the positions sampled: the candidate is
\* returned, or discarded and the loop goes on.
AttemptSampled ==
  /\ AttemptDue
  /\ \E first \in shuffleArray(PotentialEdges(cand.positions)) :
       \E second \in shuffleArray(PotentialEdges(cand.positions)) :
         LET c == Candidate(cand.positions, first, second) IN
           gv' = IF Discarded(c.islands)
                 THEN [gv EXCEPT !.attempt = @ + 1]
                 ELSE [attempt |-> gv.attempt + 1, status |-> "accepted",
                       board |-> c.islands, edges |-> c.edges]
  /\ cand' = [stage |-> "attempt", islandCount |-> 0, positions |-> << >>]
  /\ UNCHANGED <<st, effectDue, loadTimer, hist, input, ses, scoreTasks, gen,
                 db>>

SamplingNext ==
  DrawIslandCount \/ Sample \/ AttemptSampled \/ GenFallback

\* A call of generateValidPuzzle.  It is synchronous code, so it goes on
\* while it can, and its random draws are fair: a cell that is not among
\* the positions is drawn in the end.  The rest of an attempt is the one
\* step of a state where it is due, so its weak fairness is that no such
\* state lasts for ever.
SamplingSpec ==
  /\ SamplingInit
  /\ [][SamplingNext]_vars
  /\ WF_vars(DrawIslandCount)
  /\ WF_vars(Sample)
  /\ WF_vars(GenFallback)
  /\ []<>~AttemptDue

\* ------------------------------------------------------------------ ledger invariants

RECURSIVE IncidentCount(_, _, _)
\* The sum of the counts of the bridges i.. of the list that have the
\* island at pos as an endpoint.
IncidentCount(bridges, pos, i) ==
  IF i > Len(bridges) THEN 0
  ELSE (IF pos \in PairOf(bridges[i].start, bridges[i].end)
        THEN bridges[i].count ELSE 0) + IncidentCount(bridges, pos, i + 1)

\* C1: in every reachable state every island's remainingConnections equals
\* its value minus the sum of the counts of the bridges of the bridge list
\* that have the island as an endpoint.
C1_LedgerInvariant ==
  \A i \in DOMAIN st.board :
    st.board[i].remainingConnections
      = st.board[i].value - IncidentCount(st.bridges, Pos(st.board[i]), 1)

\* C2: in every reachable state every island has
\* 0 <= remainingConnections <= value, whatever events were handled against
\* one render.
C2_RemainingInRange ==
  \A i \in DOMAIN st.board :
    /\ 0 <= st.board[i].remainingConnections
    /\ st.board[i].remainingConnections <= st.board[i].value

\* C3: in every reachable state the bridge list holds at most one Bridge per
\* unordered pair of island coordinates.
C3_OneBridgePerPair ==
  \A i, j \in DOMAIN st.bridges :
    i # j => PairOf(st.bridges[i].start, st.bridges[i].end)
               # PairOf(st.bridges[j].start, st.bridges[j].end)

\* ------------------------------------------------------------------ primary cycle

\* The remainingConnections of the island at pos.
RemAt(pos) == IslandAt(st.board, pos).remainingConnections

\* The pair of the fallback board, A = (0,0) and B = (1,0), both of value 2.
PairAB == {<<0, 0>>, <<1, 0>>}

\* C4: two consecutive validated primary-cycle requests on a pair that had
\* no bridge go Absent -> Single -> Double: after the first the pair has one
\* bridge of count 1 and both endpoints are down by 1; after the second that
\* one bridge has count 2 and both endpoints are down by 2 (on the board of A
\* and B, both of value 2, the board is then won).
C4_SingleThenDouble ==
  LET pr == hist.run.pair
      on == PairBridges(st.bridges, pr)
  IN  /\ hist.run.n = 1 =>
           /\ Cardinality(on) = 1
           /\ \A k \in on : st.bridges[k].count = 1
           /\ \A pos \in pr : RemAt(pos) = hist.run.rem0[pos] - 1
      /\ hist.run.n = 2 =>
           /\ Cardinality(on) = 1
           /\ \A k \in on : st.bridges[k].count = 2
           /\ \A pos \in pr : RemAt(pos) = hist.run.rem0[pos] - 2
           /\ (pr = PairAB /\ Len(st.board) = 2) => st.isGameWon

\* C5: a primary-cycle request on a pair that carries a double line takes
\* the pair back to Absent and gives both endpoints 2 back (on the board of
\* A and B the third request leaves no bridge, both islands at 2 and the
\* board not won).
C5_DoubleToAbsent ==
  (hist.op = "request" /\ hist.had = 2) =>
    /\ PairBridges(st.bridges, hist.pair) = {}
    /\ \A pos \in hist.pair : hist.gain[pos] = 2
    /\ (hist.pair = PairAB /\ Len(st.board) = 2) =>
         /\ \A pos \in PairAB : RemAt(pos) = 2
         /\ ~st.isGameWon

\* C6: four applications of the primary cycle in a row to a pair that had no
\* bridge leave the pair without a bridge and both endpoints with the
\* remainingConnections they had before the first.
C6_FourTimesIsAbsent ==
  hist.run.n = 4 =>
    /\ PairBridges(st.bridges, hist.run.pair) = {}
    /\ \A pos \in hist.run.pair : RemAt(pos) = hist.run.rem0[pos]

\* ------------------------------------------------------------------ reduction path

\* C7: a click on a bridge that is in the bridge list follows the reduction
\* path: a count of 2 becomes 1, a bridge of count 1 is removed, both
\* endpoints get 1 back, and no other bridge and no other island changes.
C7_ReductionPath ==
  (hist.op = "reduce" /\ hist.applied) => hist.reduced

\* A bridge of the pair A-B of the five-island board was clicked and removed
\* while another bridge stayed in the list.
C7_Witness ==
  /\ hist.op = "reduce" /\ hist.applied /\ hist.reduced
  /\ hist.pair = {<<0, 0>>, <<2, 0>>}
  /\ \A pos \in hist.pair : hist.gain[pos] = 1
  /\ Len(st.bridges) = hist.had
  /\ \E k \in DOMAIN st.bridges :
       PairOf(st.bridges[k].start, st.bridges[k].end) # hist.pair

\* C8: a reduction request whose bridge is not in the bridge list changes
\* neither the bridge list nor any island's remainingConnections.
C8_AbsentReduceIsNoOp ==
  (hist.op = "reduce" /\ ~hist.applied) => ~hist.changed

\* ------------------------------------------------------------------ validator verdict

\* The four conditions of a legal connection between the islands start and
\* end of a board: different islands, on one row or column, both with
\* remainingConnections > 0, no third island strictly between them.
FourConditions(board, start, end) ==
  /\ Pos(start) # Pos(end)
  /\ (start.x = end.x) # (start.y = end.y)
  /\ start.remainingConnections > 0
  /\ end.remainingConnections > 0
  /\ ~\E i \in DOMAIN board :
        LET p == board[i] IN
          \/ /\ start.x = end.x /\ p.x = start.x
             /\ Min(start.y, end.y) < p.y /\ p.y < Max(start.y, end.y)
          \/ /\ start.y = end.y /\ p.y = start.y
             /\ Min(start.x, end.x) < p.x /\ p.x < Max(start.x, end.x)

C10_RejectedChangesNothing ==
  (hist.op = "request" /\ ~hist.applied) => ~hist.changed

\* A request between A and B of the two-island board was rejected with both
\* islands full (remainingConnections 0) and two bridges placed.
C10_Witness ==
  /\ hist.op = "request" /\ ~hist.applied /\ ~hist.changed
  /\ hist.pair = PairAB /\ Len(st.board) = 2
  /\ \A pos \in PairAB : RemAt(pos) = 0
  /\ Len(st.bridges) = 2

\* ------------------------------------------------------------------ win flag

\* C11: once the effects of a mutation have run, isGameWon is true if and
\* only if the board is non-empty and every island has
\* remainingConnections = 0; evaluating the check again on the same board
\* gives the same flag (and the check yields nothing but the flag).
C11_WinFlagIsFunctionOfBoard ==
  /\ st.isGameWon <=>
       /\ Len(st.board) > 0
       /\ \A i \in DOMAIN st.board : st.board[i].remainingConnections = 0
  /\ WinCheck(st.board, st.isGameWon) = st.isGameWon
  /\ WinCheck(st.board, WinCheck(st.board, st.isGameWon))
       = WinCheck(st.board, st.isGameWon)

\* The two-island board was won by a request, with two bridges placed.
C11_Witness ==
  /\ st.isGameWon /\ hist.op = "request" /\ hist.applied
  /\ Len(st.board) = 2 /\ Len(st.bridges) = 2

\* ------------------------------------------------------------------ connectivity

RECURSIVE Reach(_, _)
\* The positions joined to one of `seen` by bridges of the list.
Reach(seen, bridges) ==
  LET more == seen \cup UNION {PairOf(bridges[i].start, bridges[i].end) :
                                 i \in {j \in DOMAIN bridges :
                                          PairOf(bridges[j].start,
                                                 bridges[j].end)
                                            \cap seen # {}}}
  IN  IF more = seen THEN seen ELSE Reach(more, bridges)

\* The bridges join every island of the board into one component.
Connected(board, bridges) ==
  \A i \in DOMAIN board :
    {Pos(board[j]) : j \in DOMAIN board} \subseteq
      Reach({Pos(board[i])}, bridges)

\* C12: whenever the game is declared won, the placed bridges join all
\* islands of the board into a single connected component.
C12_WonIsConnected ==
  st.isGameWon => Connected(st.board, st.bridges)

\* ------------------------------------------------------------------ generated boards

C15_HundredAttemptsThenFallback ==
  /\ gv.attempt \in 0 .. 100
  /\ gv.status = "accepted" => gv.attempt >= 1
  /\ gv.status = "running" => gv.board = << >>
  /\ gv.status = "fallback" =>
       /\ gv.attempt = 100
       /\ gv.board = << <<0, 0, 2>>, <<1, 0, 2>> >>
       /\ LET board == NewBoard(gv.board, {}) IN
            /\ Len(board) = 2
            /\ \A p \in DOMAIN board :
                 board[p].value = 2 /\ board[p].remainingConnections = 2

\* The fallback board is returned.
C15_Witness == gv.status = "fallback"

\* ------------------------------------------------------------------ board replacement

\* A board as it is right after its generation: every island has all of its
\* value remaining, there is no bridge and no island is selected.
Fresh(s) ==
  /\ Len(s.board) > 0
  /\ \A i \in DOMAIN s.board :
       s.board[i].remainingConnections = s.board[i].value
  /\ s.bridges = << >>
  /\ s.selectedPoint = NoPoint

\* The step generates a board: the mount / mode effect does, and the
\* timeout of loadRandomPuzzle (New Puzzle, post-win auto-load) does.
Generates ==
  \/ effectDue /\ ~ses.isUpdatingScore
  \/ Len(loadTimer') < Len(loadTimer)

\* C14: right after any board generation or replacement every island has
\* remainingConnections = value, the bridge list is empty and no island is
\* selected.
C14_FreshAfterGeneration == [][Generates => Fresh(st')]_vars

\* The same for the generations that no event with a stale closure follows
\* before the next render.
InstalledIsFresh == hist.op = "install" => Fresh(st)

\* The coordinates of the islands of a board.
Coordinates(board) == {Pos(board[i]) : i \in DOMAIN board}

\* C18: in every state each bridge has both endpoints at coordinates of
\* islands of the current board, and so has the selected island: nothing is
\* left over from a replaced board.
C18_ReplacementIsAtomic ==
  /\ \A i \in DOMAIN st.bridges :
       /\ Pos(st.bridges[i].start) \in Coordinates(st.board)
       /\ Pos(st.bridges[i].end) \in Coordinates(st.board)
  /\ st.selectedPoint # NoPoint =>
       Pos(st.selectedPoint) \in Coordinates(st.board)

\* ------------------------------------------------------------------ frame

\* C20: a ledger operation, of the primary cycle or of the reduction path,
\* leaves the islands, their coordinates and their values as they are and
\* changes remainingConnections of no island but the two endpoints.
C20_LedgerKeepsIslands == hist.op \in {"request", "reduce"} => hist.framed

\* On the five-island board a bridge of count 1 has been removed by a click:
\* both endpoints got 1 back, the three other islands are as they were.
C20_Witness ==
  /\ hist.op = "reduce" /\ hist.applied /\ hist.changed
  /\ Len(st.board) = 5
  /\ \A pos \in hist.pair : hist.gain[pos] = 1
  /\ st.bridges = << >>

\* ------------------------------------------------------------------ generation requests

\* C16: at most one generation request is in flight (scheduled, not yet
\* applied to the board) at any time.
C16_OneRequestInFlight == Len(loadTimer) <= 1

\* C17: the result of a generation request that a newer request has
\* superseded never becomes the current board.
C17_SupersededIsDiscarded == ~gen.stale

\* ------------------------------------------------------------------ score events

\* C19: a board is never scored twice, a score event is only emitted for a
\* solved board, a board that is won with the effects run has had its one
\* score event, and every event's upsert carries the score of its render
\* plus the multiplier of its mode.
C19_OneScoreEventPerSolvedBoard ==
  /\ gen.scored <= 1
  /\ ~gen.unsolved
  /\ (ses.named /\ st.isGameWon /\ Settled) => gen.scored = 1
  /\ gen.scored = 1 => ses.named
  /\ \A i \in DOMAIN scoreTasks :
       scoreTasks[i].newScore =
         scoreTasks[i].currentScore
           + (CASE scoreTasks[i].mode = "easy" -> 1
                [] scoreTasks[i].mode = "normal" -> 2
                [] scoreTasks[i].mode = "insane" -> 4)

\* A second board is won and scored while the update of an earlier win is
\* still under way, in the mode with multiplier 2.
C19_Witness ==
  /\ gen.scored = 1
  /\ st.isGameWon
  /\ Len(scoreTasks) = 2
  /\ scoreTasks[2].mode = "normal"
  /\ scoreTasks[2].newScore = scoreTasks[2].currentScore + 2

\* ------------------------------------------------------------------ stored score

\* C21: the score stored for a username never decreases, whatever the
\* interleaving of the upsert calls for it.
C21_StoredScoreNeverDecreases == ~db.lowered

\* ------------------------------------------------------------------ generator steps

\* The potential edges of an attempt as edges between island numbers.
CandidateGraph(order) ==
  [k \in DOMAIN order |-> [start |-> order[k][1], end |-> order[k][2]]]

\* The components of the candidate graph over the islands.
Components(islands, order) ==
  {JoinedTo({p}, CandidateGraph(order)) : p \in DOMAIN islands}

C23_Augmentation ==
  cand.stage \in {"extras", "summed"} =>
    LET K == Len(cand.islands)
        edges == cand.usedEdges
    IN  /\ cand.actions <= K \div 2
        /\ cand.actions + cand.extrasToAdd = K \div 2
        /\ \A k, m \in DOMAIN edges :
             k # m => {edges[k].start, edges[k].end}
                        # {edges[m].start, edges[m].end}
        /\ \A k \in DOMAIN edges :
             /\ edges[k].count \in {1, 2}
             /\ edges[k].count = 2 <=> k \in cand.upgraded
             /\ edges[k].count = 2 => k <= Len(cand.tree)
        /\ cand.stage = "summed" =>
             edges = AddExtras(cand.tree, cand.potential, K \div 2, 1)

\* Four islands: the step upgraded one edge of the spanning step to 2 and
\* added one edge of count 1.
C23_Witness ==
  /\ cand.stage = "summed"
  /\ Len(cand.islands) = 4
  /\ cand.actions = 2
  /\ Cardinality(cand.upgraded) = 1
  /\ Len(cand.usedEdges) = Len(cand.tree) + 1

\* ------------------------------------------------------------------ playable boards

RECURSIVE IncidentLines(_, _)
\* The lines the edges of a set of edge numbers bring to island p.
IncidentLines(todo, edges) ==
  IF todo = {} THEN 0
  ELSE LET k == CHOOSE m \in todo : TRUE IN
         edges[k].count + IncidentLines(todo \ {k}, edges)

\* C24: every returned candidate can be played to a win.  Each of its edges
\* joins two islands of one row or column with no island strictly between
\* them, each island's value is the sum of the counts of the edges at it,
\* and the player who asks count times for each edge has every request
\* approved by the validator and ends with every island at 0 remaining and
\* isGameWon.
C24_AcceptedIsPlayable ==
  (cand.stage \in {"summed", "played"} /\ ~Discarded(cand.board)) =>
    LET board == cand.board
        edges == cand.usedEdges
    IN  /\ \A k \in DOMAIN edges :
             LET a == board[edges[k].start]
                 b == board[edges[k].end]
             IN  /\ a # b
                 /\ a[1] = b[1] \/ a[2] = b[2]
                 /\ ~\E p \in DOMAIN board :
                       \/ /\ a[1] = b[1] /\ board[p][1] = a[1]
                          /\ Min(a[2], b[2]) < board[p][2]
                          /\ board[p][2] < Max(a[2], b[2])
                       \/ /\ a[2] = b[2] /\ board[p][2] = a[2]
                          /\ Min(a[1], b[1]) < board[p][1]
                          /\ board[p][1] < Max(a[1], b[1])
        /\ \A p \in DOMAIN board :
             board[p][3] =
               IncidentLines({k \in DOMAIN edges :
                                p \in {edges[k].start, edges[k].end}},
                             edges)
        /\ cand.stage = "played" =>
             /\ cand.play.approved
             /\ cand.play.isGameWon
             /\ \A p \in DOMAIN cand.play.board : cand.play.board[p][4] = 0

\* Four islands around an empty centre, joined in two crossing pairs of
\* count 2, were played to a win.
C24_Witness ==
  /\ cand.stage = "played"
  /\ cand.play.isGameWon
  /\ {cand.islands[p] : p \in DOMAIN cand.islands}
       = {<<1, 0>>, <<0, 1>>, <<2, 1>>, <<1, 2>>}
  /\ cand.play.bridges = 4

\* ------------------------------------------------------------------ termination

\* Every mode has room for its islands, and so has the grid of the calls
\* followed here.
ConfigFits ==
  /\ \A m \in DOMAIN MODES_CONFIG :
       /\ MODES_CONFIG[m].minIslands <= MODES_CONFIG[m].maxIslands
       /\ MODES_CONFIG[m].maxIslands
            <= MODES_CONFIG[m].gridSize * MODES_CONFIG[m].gridSize
  /\ SampleMinIslands <= SampleMaxIslands
  /\ SampleMaxIslands <= SampleGridSize * SampleGridSize

\* The sampler holds at most islandCount positions, no two the same, all
\* inside the grid, and the call has made at most 100 attempts.
SamplerInRange ==
  /\ gv.attempt <= 100
  /\ Len(cand.positions) <= cand.islandCount
  /\ cand.islandCount <= SampleGridSize * SampleGridSize
  /\ \A k \in DOMAIN cand.positions :
       /\ cand.positions[k][1] \in 0 .. SampleGridSize - 1
       /\ cand.positions[k][2] \in 0 .. SampleGridSize - 1
       /\ \A m \in DOMAIN cand.positions :
            m # k => cand.positions[m] # cand.positions[k]

\* C25: generateValidPuzzle terminates: the island count never exceeds the
\* number of cells, the sampler keeps pairwise different coordinates inside
\* the grid, and the call returns, after at most 100 attempts, an accepted
\* board or the fallback board.
C25_GeneratorTerminates ==
  /\ [](ConfigFits /\ SamplerInRange)
  /\ <>(gv.status \in {"accepted", "fallback"} /\ gv.attempt <= 100)

\* The call returns a board of the most islands at its hundredth attempt.
C25_Witness ==
  /\ gv.status = "accepted"
  /\ gv.attempt = 100
  /\ Len(gv.board) = SampleMaxIslands
  /\ cand.stage = "attempt"

\* ------------------------------------------------------------------ restart

\* A fresh unsolved board is shown and nothing of the last win is left.
Restarted ==
  /\ Fresh(st)
  /\ ~Solved(st.board)
  /\ ~st.isGameWon
  /\ ~st.isLoading
  /\ ~ses.isUpdatingScore

\* C26: once the board is won while a username is set, the session comes
\* to a fresh unsolved board with isGameWon, isLoading and isUpdatingScore
\* all false: it does not stay on the solved board or with
\* isUpdatingScore = true for ever.
C26_WonLeadsToRestart == (st.isGameWon /\ ses.named) ~> Restarted

\* A win has been scored, its auto-load has run, and the session is at a
\* fresh board with nothing pending.
C26_Witness ==
  /\ ses.named
  /\ ses.currentScore > 0
  /\ scoreTasks = << >>
  /\ loadTimer = << >>
  /\ ~effectDue
  /\ Restarted

\* ------------------------------------------------------------------ mode

\* No generation is requested or under way: no loadRandomPuzzle timeout and
\* no auto-load is pending, and the effects of the last render have run.
NoRequestPending ==
  /\ loadTimer = << >>
  /\ scoreTasks = << >>
  /\ ~st.isLoading
  /\ Settled

\* The islands of a board as generateValidPuzzle returned them.
Returned(board) ==
  [i \in DOMAIN board |-> <<board[i].x, board[i].y, board[i].value>>]

\* The board is one generateValidPuzzle(mode) returns: the fallback board,
\* or minIslands to maxIslands islands inside the mode's grid.
BoardOfMode(mode, board) ==
  \/ Returned(board) = FallbackBoard
  \/ /\ Len(board) >= MODES_CONFIG[mode].minIslands
     /\ Len(board) <= MODES_CONFIG[mode].maxIslands
     /\ \A i \in DOMAIN board :
          /\ board[i].x \in 0 .. MODES_CONFIG[mode].gridSize - 1
          /\ board[i].y \in 0 .. MODES_CONFIG[mode].gridSize - 1

\* C27: whenever no generation request is pending, the board shown is one
\* of the selected mode: the fallback board, or minIslands to maxIslands
\* islands with all coordinates inside the mode's grid.
C27_BoardIsOfSelectedMode == NoRequestPending => BoardOfMode(ses.mode, st.board)

=============================================================================
